---- MODULE Spec2Model ----
(***************************************************************************)
(* The optimistic cart store of the storefront                             *)
(* (src/apps/storefront/src/lib/context/cart-context.tsx, CartProvider).   *)
(*                                                                         *)
(* The store keeps one working cart, optimisticCart.  The three handlers   *)
(* (bulk add, delete, update quantity) replace it synchronously through an *)
(* updater function, take a structuredClone of the previous value, and     *)
(* dispatch one remote call whose rejection puts the clone back.           *)
(*                                                                         *)
(* useOptimistic is modelled as the state cell the handlers use it as:     *)
(* setOptimisticCart(f) replaces the working cart by f(working cart),      *)
(* setOptimisticCart(v) by v, and every new value is rendered once, which  *)
(* sorts its items array in place (sortedItems).  The cart prop does not   *)
(* change during a run of Spec.                                            *)
(*                                                                         *)
(* Specifications:                                                         *)
(*   Spec          the three handlers, each as one step, and the           *)
(*                 settlement of their remote calls;                       *)
(*   SpecObserved  Spec with the handlers called on ids the cart lacks;    *)
(*   SpecSteps     the handlers statement by statement;                    *)
(*   SpecRefresh   Spec and the re-render with the cart fetched from the   *)
(*                 backend, under weak fairness;                           *)
(*   SpecView      the sorted view of a cart of up to MaxRows rows;        *)
(*   SpecFrame     one handler invocation on such a cart;                  *)
(*   SpecCountry   Spec and a change of the countryCode route parameter;   *)
(*   SpecQuotes    the life cycle of a quote (integration test).           *)
(*                                                                         *)
(* Numbers: prices and quantities are JavaScript numbers; the model uses   *)
(* small non-negative integers, on which the arithmetic of the code is     *)
(* exact.  A missing created_at (undefined, read as "" by the comparator)  *)
(* is the stamp 0; a present ISO timestamp is a stamp >= 1, and the order  *)
(* of the stamps is the order of the strings.                              *)
(***************************************************************************)
EXTENDS Integers, Sequences, FiniteSets

\* ------------------------------------------------------------------ bounds

\* Handler invocations that apply a mutation, per run.
MaxOps == 2
\* Largest quantity of one payload entry or of one update.
MaxQty == 2
\* Entries of one bulk-add payload.
MaxPayload == 2
\* Rows of a cart whose sorted view is computed on its own.
MaxRows == 3
\* Largest created_at of such a row.
MaxStamp == 2
\* Quotes created per run.
MaxQuotes == 3
\* ------------------------------------------------------- ids and variants

OPTIMISTIC_ITEM_ID_PREFIX == "__optimistic__"

\* Mutant of generateOptimisticItemId: the variant id is left out.
generateOptimisticItemIdWithoutVariant(variantId) ==
    OPTIMISTIC_ITEM_ID_PREFIX \o "-"

generateOptimisticItemId(variantId) ==
    OPTIMISTIC_ITEM_ID_PREFIX \o "-" \o variantId

\* String.prototype.startsWith
startsWith(s, prefix) ==
    /\ Len(s) >= Len(prefix)
    /\ SubSeq(s, 1, Len(prefix)) = prefix

\* Mutant of isOptimisticItemId: equality with the prefix instead of startsWith.
isOptimisticItemIdByEquality(id) == id = OPTIMISTIC_ITEM_ID_PREFIX

isOptimisticItemId(id) == startsWith(id, OPTIMISTIC_ITEM_ID_PREFIX)

\* The product variants an add-to-cart event can name.
Variants == {"v1", "v2"}

\* lineItem.productVariant.calculated_price?.calculated_amount || 0 :
\* v1 has a calculated price, v2 has none.
priceAmount(variantId) == IF variantId = "v1" THEN 50 ELSE 0

\* Line item ids issued by the backend.
AuthoritativeIds == {"li_1", "li_2"}

\* The ids a consumer can pass to delete / update: the backend's, the
\* optimistic ones, and one id that no line item ever has.
LineItemIds ==
    AuthoritativeIds \cup {generateOptimisticItemId(v) : v \in Variants} \cup {"5"}

\* The values of the [countryCode] route parameter.
CountryCodes == {"us", "de"}

\* ------------------------------------------------------------ cart values

\* B2BCart | null.  The null cart is the record with exists = FALSE; an id
\* or region of "" is an absent (undefined) field.
NullCart ==
    [exists |-> FALSE, id |-> "", region_id |-> "", item_subtotal |-> 0,
     items |-> <<>>]

LineItem(id, variant, quantity, unit_price, created_at) ==
    [id |-> id, variant |-> variant, quantity |-> quantity,
     unit_price |-> unit_price, created_at |-> created_at]

\* The quantity a list of line items holds of a variant.
RECURSIVE QuantityOf(_, _)
QuantityOf(items, variant) ==
    IF items = <<>> THEN 0
    ELSE (IF items[1].variant = variant THEN items[1].quantity ELSE 0)
         + QuantityOf(Tail(items), variant)

\* The quantity the entries of a payload ask of a variant.
RECURSIVE EntriesQuantity(_, _)
EntriesQuantity(lineItems, variant) ==
    IF lineItems = <<>> THEN 0
    ELSE (IF lineItems[1].productVariant = variant THEN lineItems[1].quantity ELSE 0)
         + EntriesQuantity(Tail(lineItems), variant)

\* cartItems.reduce((acc, item) => acc + item.unit_price * item.quantity, 0)
RECURSIVE reduceTotal(_)
reduceTotal(cartItems) ==
    IF cartItems = <<>> THEN 0
    ELSE reduceTotal(SubSeq(cartItems, 1, Len(cartItems) - 1))
         + cartItems[Len(cartItems)].unit_price * cartItems[Len(cartItems)].quantity

\* x || 0
orZero(x) == IF x = 0 THEN 0 ELSE x

\* Mutant of calculateCartTotal: the quantities are left out of the sum.
RECURSIVE calculateCartTotalOfUnitPrices(_)
calculateCartTotalOfUnitPrices(cartItems) ==
    IF cartItems = <<>> THEN 0
    ELSE calculateCartTotalOfUnitPrices(SubSeq(cartItems, 1, Len(cartItems) - 1))
         + cartItems[Len(cartItems)].unit_price

calculateCartTotal(cartItems) == orZero(reduceTotal(cartItems))

\* {} as B2BCart: the value of prevCart before the updater has assigned it.
EmptyObject ==
    [exists |-> TRUE, id |-> "", region_id |-> "", item_subtotal |-> 0,
     items |-> <<>>]

VARIABLES
    cart,            \* the cart prop: the authoritative cart given to CartProvider
    optimisticCart,  \* the working cart held by useOptimistic
    pending,         \* the operations whose remote call has not settled
    opCount,         \* mutations applied so far
    now,             \* the clock reading of the latest bulk add
    sortOrder,       \* which argument order the engine's sort calls comparefn in
    last,            \* the latest handler step: what it dispatched and notified
    countryCode,     \* useParams().countryCode of the latest render
    capturedCountryCode, \* the countryCode in the closure of the memoized bulk-add handler
    running,         \* the handler invocation on the call stack, when followed step by step
    backend,         \* the cart the backend holds
    quotes           \* the quotes the backend holds, by cart

vars == <<cart, optimisticCart, pending, opCount, now, sortOrder, last,
          countryCode, capturedCountryCode, running, backend, quotes>>

\* Mutant of structuredClone: the snapshot is taken of the cart prop, not of
\* the value the updater was given.
cloneOfCartProp(value) == cart

\* structuredClone: a deep copy, equal in value to its argument and sharing
\* nothing with it.
structuredClone(value) == value

\* --------------------------------------------------------- the sorted view

\* Mutant of comparefn: the comparison is turned around.
comparefnAscending(a, b) == IF a.created_at < b.created_at THEN -1 ELSE 1

\* (a, b) => (a.created_at ?? "") > (b.created_at ?? "") ? -1 : 1
comparefn(a, b) == IF a.created_at > b.created_at THEN -1 ELSE 1

insertAt(s, k, x) == SubSeq(s, 1, k) \o <<x>> \o SubSeq(s, k + 1, Len(s))

\* Binary insertion: the element being placed is comparefn's first argument.
\* Returns how many elements of sorted stay in front of pivot.
RECURSIVE searchInsert(_, _, _, _)
searchInsert(sorted, pivot, left, right) ==
    IF left >= right THEN left
    ELSE LET mid == left + ((right - left) \div 2)
         IN  IF comparefn(pivot, sorted[mid + 1]) < 0
             THEN searchInsert(sorted, pivot, left, mid)
             ELSE searchInsert(sorted, pivot, mid + 1, right)

\* Linear insertion: the element being placed is comparefn's second argument.
RECURSIVE scanInsert(_, _, _)
scanInsert(sorted, pivot, j) ==
    IF j >= 1 /\ comparefn(sorted[j], pivot) > 0
    THEN scanInsert(sorted, pivot, j - 1)
    ELSE j

\* Array.prototype.sort(comparefn) on a short array.  comparefn never returns
\* 0, so it is not a consistent comparator and the order of elements with
\* equal created_at is left to the engine: both insertion sorts are modelled.
RECURSIVE insertionSort(_, _, _)
insertionSort(items, n, order) ==
    IF n = 0 THEN <<>>
    ELSE LET sorted == insertionSort(items, n - 1, order)
             pivot == items[n]
             k == IF order = "pivotFirst"
                  THEN searchInsert(sorted, pivot, 0, n - 1)
                  ELSE scanInsert(sorted, pivot, n - 1)
         IN  insertAt(sorted, k, pivot)

SortOrders == {"pivotFirst", "elementFirst"}

\* optimisticCart?.items?.sort(...)
sortedItems(items) == insertionSort(items, Len(items), sortOrder)

\* One render of CartProvider with a new optimisticCart: the useMemo sorts the
\* items array of the state object in place.
Render(c) == [c EXCEPT !.items = sortedItems(c.items)]

\* What consumers get: { ...optimisticCart, items: sortedItems }
VisibleCart == optimisticCart

\* ------------------------------------------------------------ the updaters

\* newItems.findIndex(({ variant }) => variant?.id === variantId), 1-based;
\* 0 stands for -1.
findIndex(newItems, variantId) ==
    IF \E i \in 1..Len(newItems) : newItems[i].variant = variantId
    THEN CHOOSE i \in 1..Len(newItems) :
            /\ newItems[i].variant = variantId
            /\ \A j \in 1..(i - 1) : newItems[j].variant # variantId
    ELSE 0

\* Mutant of addLineItems: every entry pushes a new row.
RECURSIVE addLineItemsAlwaysPush(_, _, _, _)
addLineItemsAlwaysPush(newItems, lineItems, stamp, k) ==
    IF k > Len(lineItems) THEN newItems
    ELSE addLineItemsAlwaysPush(
            Append(newItems,
                   LineItem(generateOptimisticItemId(lineItems[k].productVariant),
                            lineItems[k].productVariant,
                            lineItems[k].quantity,
                            priceAmount(lineItems[k].productVariant),
                            stamp)),
            lineItems, stamp, k + 1)

\* The for loop of the bulk-add updater from entry k on: an entry whose variant
\* has a row adds its quantity to that row, another one pushes a new row with
\* the optimistic id.  stamp is what new Date().toISOString() returns.
RECURSIVE addLineItems(_, _, _, _)
addLineItems(newItems, lineItems, stamp, k) ==
    IF k > Len(lineItems) THEN newItems
    ELSE LET lineItem == lineItems[k]
             existingItemIndex == findIndex(newItems, lineItem.productVariant)
         IN  IF existingItemIndex > 0
             THEN addLineItems(
                    [newItems EXCEPT ![existingItemIndex].quantity =
                        @ + lineItem.quantity],
                    lineItems, stamp, k + 1)
             ELSE addLineItems(
                    Append(newItems,
                           LineItem(generateOptimisticItemId(lineItem.productVariant),
                                    lineItem.productVariant,
                                    lineItem.quantity,
                                    priceAmount(lineItem.productVariant),
                                    stamp)),
                    lineItems, stamp, k + 1)

\* Mutant of addUpdater: the new cart is computed from the cart prop, not from
\* the value the updater was given.
addUpdaterFromCartProp(prev, payload, stamp) ==
    LET newItems == addLineItems(cart.items, payload, stamp, 1)
    IN  [exists |-> TRUE, id |-> cart.id, region_id |-> cart.region_id,
         item_subtotal |-> calculateCartTotal(newItems), items |-> newItems]

\* The updater of handleOptimisticAddToCart: { ...prev, item_subtotal, items }.
addUpdater(prev, payload, stamp) ==
    LET newItems == addLineItems(prev.items, payload, stamp, 1)
    IN  [exists |-> TRUE, id |-> prev.id, region_id |-> prev.region_id,
         item_subtotal |-> calculateCartTotal(newItems), items |-> newItems]

\* Mutant of filterOut: the test of the filter is turned around.
RECURSIVE filterKeepingOnly(_, _)
filterKeepingOnly(items, lineItem) ==
    IF items = <<>> THEN <<>>
    ELSE IF items[1].id = lineItem
         THEN <<items[1]>> \o filterKeepingOnly(Tail(items), lineItem)
         ELSE filterKeepingOnly(Tail(items), lineItem)

\* prev.items.filter(({ id }) => id !== lineItem)
RECURSIVE filterOut(_, _)
filterOut(items, lineItem) ==
    IF items = <<>> THEN <<>>
    ELSE IF items[1].id # lineItem
         THEN <<items[1]>> \o filterOut(Tail(items), lineItem)
         ELSE filterOut(Tail(items), lineItem)

\* The updater of handleDeleteItem.
deleteUpdater(prev, lineItem) ==
    IF ~prev.exists THEN prev
    ELSE LET optimisticItems == filterOut(prev.items, lineItem)
         IN  [prev EXCEPT !.item_subtotal = orZero(reduceTotal(optimisticItems)),
                          !.items = optimisticItems]

\* Mutant of replaceQuantity: a quantity of 0 is written to the row like any other.
replaceQuantityKeepingZero(items, lineItem, quantity) ==
    [i \in 1..Len(items) |->
        IF items[i].id = lineItem THEN [items[i] EXCEPT !.quantity = quantity]
        ELSE items[i]]

\* prev.items.reduce((acc, item) => item.id === lineItem
\*    ? (quantity === 0 ? acc : [...acc, { ...item, quantity }]) : [...acc, item], [])
RECURSIVE replaceQuantity(_, _, _)
replaceQuantity(items, lineItem, quantity) ==
    IF items = <<>> THEN <<>>
    ELSE LET acc == replaceQuantity(SubSeq(items, 1, Len(items) - 1), lineItem, quantity)
             item == items[Len(items)]
         IN  IF item.id = lineItem
             THEN IF quantity = 0 THEN acc
                  ELSE Append(acc, [item EXCEPT !.quantity = quantity])
             ELSE Append(acc, item)

\* The updater of handleUpdateCartQuantity.
updateUpdater(prev, lineItem, quantity) ==
    IF ~prev.exists THEN prev
    ELSE LET optimisticItems == replaceQuantity(prev.items, lineItem, quantity)
         IN  [prev EXCEPT !.item_subtotal = orZero(reduceTotal(optimisticItems)),
                          !.items = optimisticItems]

\* Mutant of hasItem: the row is looked up in the cart prop.
hasItemInCartProp(c, lineItem) ==
    \E i \in 1..Len(cart.items) : cart.items[i].id = lineItem

\* optimisticCart?.items?.find(({ id }) => id === lineItem) is defined
hasItem(c, lineItem) == \E i \in 1..Len(c.items) : c.items[i].id = lineItem

\* --------------------------------------------------------- remote requests

NoLineItems == <<>>

Request(api, lineId, quantity, lineItems, country) ==
    [api |-> api, lineId |-> lineId, quantity |-> quantity,
     lineItems |-> lineItems, countryCode |-> country]

\* Mutant of addToCartBulk: the request names the optimistic row ids.
addToCartBulkWithRowIds(payload) ==
    Request("addToCartBulk", "", 0,
            [i \in 1..Len(payload) |->
                [variant_id |-> generateOptimisticItemId(payload[i].productVariant),
                 quantity |-> payload[i].quantity]],
            capturedCountryCode)

\* addToCartBulk({ lineItems: payload.lineItems.map(...), countryCode }): the
\* countryCode is the one in the closure of the handler that runs.
addToCartBulk(payload) ==
    Request("addToCartBulk", "", 0,
            [i \in 1..Len(payload) |->
                [variant_id |-> payload[i].productVariant,
                 quantity |-> payload[i].quantity]],
            capturedCountryCode)

\* deleteLineItem(lineItem)
deleteLineItem(lineItem) == Request("deleteLineItem", lineItem, 0, NoLineItems, "")

\* updateLineItem({ lineId: lineItem, data: { quantity } })
updateLineItem(lineItem, quantity) ==
    Request("updateLineItem", lineItem, quantity, NoLineItems, "")

\* The requests handleUpdateCartQuantity dispatches: none for an optimistic id.
updateRequests(lineItem, quantity) ==
    IF ~isOptimisticItemId(lineItem)
    THEN <<updateLineItem(lineItem, quantity)>>
    ELSE <<>>

\* The message of the toast.error of each handler's catch.
failureToast(kind) ==
    CASE kind = "add" -> "Failed to add to cart"
      [] kind = "delete" -> "Failed to delete item"
      [] kind = "update" -> "Failed to update cart quantity"

\* Mutant of catch: no handler is attached, the promise is awaited as it is.
awaitWithoutCatch(promise) == promise

\* promise.catch((e) => { toast.error(...); setOptimisticCart(prevCart) }):
\* the handler returns, so the promise the handler awaits fulfils when the
\* remote call rejects, and follows the remote call otherwise.
catch(promise) == IF promise = "rejected" THEN "fulfilled" ELSE promise

\* Mutant of revertTo: the catch handler puts the cart prop back.
revertToCartProp(op) == cart

\* setOptimisticCart(prevCart) of the catch handlers
revertTo(op) == op.prevCart

\* --------------------------------------------------------------- inputs

Cart(id, region_id, items) ==
    [exists |-> TRUE, id |-> id, region_id |-> region_id,
     item_subtotal |-> reduceTotal(items), items |-> items]

\* The authoritative line items the backend can hand to CartProvider: one row
\* per variant, created in one insert (equal created_at).  The subtotal of an
\* authoritative cart is the sum over its rows.
AuthoritativeItemLists ==
    {<<>>}
    \cup {<<LineItem("li_1", "v1", 1, 50, 1)>>}
    \cup {<<LineItem("li_1", "v1", 1, 50, 1), LineItem("li_2", "v2", 2, 30, 1)>>}

\* PropsWithChildren<{ cart: B2BCart | null }>
AuthoritativeCarts ==
    {NullCart} \cup {Cart("cart_1", "reg_1", items) : items \in AuthoritativeItemLists}

\* AddToCartEventPayload["lineItems"]: the variant of each entry stands for
\* its productVariant object.
PayloadEntries == [productVariant : Variants, quantity : 1..MaxQty]

Payloads == UNION {[1..n -> PayloadEntries] : n \in 0..MaxPayload}

\* ------------------------------------------------------------- the backend

\* The backend's cart: whether the session has one, and the quantity it holds
\* of each variant.  It keeps one line item per variant.
BackendCart(exists, quantity) == [exists |-> exists, quantity |-> quantity]

backendOf(c) ==
    BackendCart(c.exists, [v \in Variants |-> QuantityOf(c.items, v)])

\* The id and the unit price the backend gives the line item of a variant.
backendLineItemId(variant) == IF variant = "v1" THEN "li_1" ELSE "li_2"

backendUnitPrice(variant) == IF variant = "v1" THEN 50 ELSE 30

\* The backend applies the request of op: "add line items", "delete line
\* item", "update line item".  A request naming a line item the backend does
\* not hold changes nothing.
applyRequest(b, op) ==
    CASE op.kind = "add" ->
            BackendCart(TRUE,
                [v \in Variants |-> b.quantity[v] + EntriesQuantity(op.payload, v)])
      [] op.kind = "delete" ->
            BackendCart(b.exists,
                [v \in Variants |->
                    IF backendLineItemId(v) = op.lineItem THEN 0 ELSE b.quantity[v]])
      [] op.kind = "update" ->
            BackendCart(b.exists,
                [v \in Variants |->
                    IF backendLineItemId(v) = op.lineItem /\ b.quantity[v] > 0
                    THEN op.quantity ELSE b.quantity[v]])
      [] OTHER -> b

\* The line item the backend holds of a variant, if any.
backendItems(b, variant) ==
    IF b.quantity[variant] > 0
    THEN <<LineItem(backendLineItemId(variant), variant, b.quantity[variant],
                    backendUnitPrice(variant), 1)>>
    ELSE <<>>

\* The authoritative cart the data layer fetches from the backend.
retrieveCart(b) ==
    IF b.exists
    THEN Cart("cart_1", "reg_1", backendItems(b, "v1") \o backendItems(b, "v2"))
    ELSE NullCart

\* -------------------------------------------------------------- operations

\* One handler invocation: its arguments, its closure variable prevCart, the
\* working cart it found (before), and the operations in flight when it ran.
Op(seq, kind, lineItem, quantity, payload, prevCart, before, concurrent) ==
    [seq |-> seq, kind |-> kind, lineItem |-> lineItem, quantity |-> quantity,
     payload |-> payload, prevCart |-> prevCart, before |-> before,
     concurrent |-> concurrent]

Descriptor(op) ==
    [seq |-> op.seq, kind |-> op.kind, lineItem |-> op.lineItem,
     quantity |-> op.quantity, payload |-> op.payload]

InFlight == {Descriptor(op) : op \in pending}

\* One step: the requests it dispatched, the notifications it emitted, and
\* the state it leaves the promise of the handler invocation in.
Step(event, op, sent, toasted, promise) ==
    [event |-> event, op |-> op, sent |-> sent, toasted |-> toasted,
     promise |-> promise]

NoOp == Op(0, "none", "", 0, <<>>, EmptyObject, EmptyObject, {})

\* A handler invocation on the call stack: the statement it is at, its
\* arguments and prevCart (op), and the locals of the bulk-add updater.
Frame(pos, op, k, newItems) ==
    [pos |-> pos, op |-> op, k |-> k, newItems |-> newItems]

\* No handler invocation is on the call stack.
Idle == Frame("idle", NoOp, 0, <<>>)

\* No cart has a quote.
NoQuotes == <<>>

Init ==
    /\ sortOrder \in SortOrders
    /\ \E c \in AuthoritativeCarts :
          /\ cart = Render(c)
          /\ optimisticCart = Render(c)
          /\ backend = backendOf(c)
    /\ pending = {}
    /\ opCount = 0
    /\ now = 1
    /\ last = Step("init", NoOp, <<>>, <<>>, "fulfilled")
    /\ countryCode = "us"
    /\ capturedCountryCode = countryCode
    /\ running = Idle
    /\ quotes = NoQuotes

\* handleOptimisticAddToCart(payload): the updater runs on the current working
\* cart, then addToCartBulk is dispatched.  The clock has moved on by one
\* reading since the previous bulk add, and the rows of one payload are
\* created within one reading.
HandleOptimisticAddToCart(payload) ==
    /\ opCount < MaxOps
    /\ LET prev == optimisticCart
           op == Op(opCount + 1, "add", "", 0, payload,
                    structuredClone(prev), prev, InFlight)
       IN  /\ optimisticCart' = Render(addUpdater(prev, payload, now + 1))
           /\ pending' = pending \cup {op}
           /\ last' = Step("start", op, <<addToCartBulk(payload)>>, <<>>, "fulfilled")
    /\ opCount' = opCount + 1
    /\ now' = now + 1
    /\ UNCHANGED <<cart, sortOrder>>
    /\ UNCHANGED <<countryCode, capturedCountryCode, running, backend, quotes>>

\* handleDeleteItem(lineItem).  An invocation that returns at the presence
\* check changes nothing in the store; it is recorded in last when observed.
HandleDeleteItem(lineItem, observed) ==
    IF ~hasItem(optimisticCart, lineItem)
    THEN /\ last' = IF observed
                    THEN Step("return", Op(0, "delete", lineItem, 0, <<>>,
                                           EmptyObject, optimisticCart, InFlight),
                              <<>>, <<>>, "fulfilled")
                    ELSE last
         /\ UNCHANGED <<cart, optimisticCart, pending, opCount, now, sortOrder>>
         /\ UNCHANGED <<countryCode, capturedCountryCode, running, backend, quotes>>
    ELSE /\ opCount < MaxOps
         /\ LET prev == optimisticCart
                op == Op(opCount + 1, "delete", lineItem, 0, <<>>,
                         structuredClone(prev), prev, InFlight)
            IN  /\ optimisticCart' = Render(deleteUpdater(prev, lineItem))
                /\ pending' = pending \cup {op}
                /\ last' = Step("start", op, <<deleteLineItem(lineItem)>>, <<>>,
                                 "pending")
         /\ opCount' = opCount + 1
         /\ UNCHANGED <<cart, now, sortOrder>>
         /\ UNCHANGED <<countryCode, capturedCountryCode, running, backend, quotes>>

\* handleUpdateCartQuantity(lineItem, quantity)
HandleUpdateCartQuantity(lineItem, quantity, observed) ==
    IF ~hasItem(optimisticCart, lineItem)
    THEN /\ last' = IF observed
                    THEN Step("return", Op(0, "update", lineItem, quantity, <<>>,
                                           EmptyObject, optimisticCart, InFlight),
                              <<>>, <<>>, "fulfilled")
                    ELSE last
         /\ UNCHANGED <<cart, optimisticCart, pending, opCount, now, sortOrder>>
         /\ UNCHANGED <<countryCode, capturedCountryCode, running, backend, quotes>>
    ELSE /\ opCount < MaxOps
         /\ LET prev == optimisticCart
                op == Op(opCount + 1, "update", lineItem, quantity, <<>>,
                         structuredClone(prev), prev, InFlight)
                sent == updateRequests(lineItem, quantity)
            IN  /\ optimisticCart' = Render(updateUpdater(prev, lineItem, quantity))
                /\ pending' = IF sent = <<>> THEN pending ELSE pending \cup {op}
                /\ last' = Step("start", op, sent, <<>>,
                                 IF sent = <<>> THEN "fulfilled" ELSE "pending")
         /\ opCount' = opCount + 1
         /\ UNCHANGED <<cart, now, sortOrder>>
         /\ UNCHANGED <<countryCode, capturedCountryCode, running, backend, quotes>>

\* The remote call of op fulfils: the backend has applied it, and nothing
\* runs in the store.
Resolve(op) ==
    /\ pending' = pending \ {op}
    /\ last' = Step("resolved", op, <<>>, <<>>, catch("fulfilled"))
    /\ backend' = applyRequest(backend, op)
    /\ UNCHANGED <<cart, optimisticCart, opCount, now, sortOrder>>
    /\ UNCHANGED <<countryCode, capturedCountryCode, running, quotes>>

\* The remote call of op rejects: the catch handler notifies and puts
\* prevCart back.
Reject(op) ==
    /\ pending' = pending \ {op}
    /\ optimisticCart' = Render(revertTo(op))
    /\ last' = Step("rejected", op, <<>>, <<failureToast(op.kind)>>,
                     catch("rejected"))
    /\ UNCHANGED <<cart, opCount, now, sortOrder>>
    /\ UNCHANGED <<countryCode, capturedCountryCode, running, backend, quotes>>

Next ==
    \/ \E payload \in Payloads : HandleOptimisticAddToCart(payload)
    \/ \E lineItem \in LineItemIds : HandleDeleteItem(lineItem, FALSE)
    \/ \E lineItem \in LineItemIds : \E quantity \in 0..MaxQty :
          HandleUpdateCartQuantity(lineItem, quantity, FALSE)
    \/ \E op \in pending : Resolve(op)
    \/ \E op \in pending : Reject(op)

Spec == Init /\ [][Next]_vars

\* The same steps, with the invocations that return at the presence check
\* recorded in last.
NextObserved ==
    \/ \E payload \in Payloads : HandleOptimisticAddToCart(payload)
    \/ \E lineItem \in LineItemIds : HandleDeleteItem(lineItem, TRUE)
    \/ \E lineItem \in LineItemIds : \E quantity \in 0..MaxQty :
          HandleUpdateCartQuantity(lineItem, quantity, TRUE)
    \/ \E op \in pending : Resolve(op)
    \/ \E op \in pending : Reject(op)

SpecObserved == Init /\ [][NextObserved]_vars

\* ------------------------------------------------ the handlers step by step

\* The handlers are synchronous up to their remote call: from the invocation
\* to the dispatch nothing else runs, so every other step waits for an empty
\* call stack.

\* A handler is invoked.  Delete and update-quantity go on only for an id the
\* working cart has a row of.
Invoke(kind, lineItem, quantity, payload) ==
    /\ running = Idle
    /\ opCount < MaxOps
    /\ kind # "add" => hasItem(optimisticCart, lineItem)
    /\ running' = Frame("updater",
                        Op(opCount + 1, kind, lineItem, quantity, payload,
                           EmptyObject, optimisticCart, InFlight),
                        1, <<>>)
    /\ opCount' = opCount + 1
    /\ now' = IF kind = "add" THEN now + 1 ELSE now
    /\ UNCHANGED <<cart, optimisticCart, pending, sortOrder, last>>
    /\ UNCHANGED <<countryCode, capturedCountryCode, backend, quotes>>

\* Mutant of whileUpdating: newItems is prev.items itself, not a copy.
whileUpdatingInPlace(prev, newItems) == [prev EXCEPT !.items = newItems]

\* The working cart while the bulk-add updater builds newItems, which is a
\* copy ([...(prev?.items || [])]): the working cart is not touched.
whileUpdating(prev, newItems) == prev

\* The bulk-add updater starts: prevCart = structuredClone(prev), newItems is
\* a copy of the rows.
EnterUpdater ==
    /\ running.pos = "updater"
    /\ running.op.kind = "add"
    /\ running' = [running EXCEPT !.pos = "loop",
                                  !.op.prevCart = structuredClone(optimisticCart),
                                  !.newItems = optimisticCart.items]
    /\ UNCHANGED <<cart, optimisticCart, pending, opCount, now, sortOrder, last>>
    /\ UNCHANGED <<countryCode, capturedCountryCode, backend, quotes>>

\* One iteration of the for loop over payload.lineItems.
LoopEntry ==
    /\ running.pos = "loop"
    /\ running.k <= Len(running.op.payload)
    /\ \E newItems \in {addLineItems(running.newItems,
                                      SubSeq(running.op.payload, running.k, running.k),
                                      now, 1)} :
          /\ running' = [running EXCEPT !.k = @ + 1, !.newItems = newItems]
          /\ optimisticCart' = whileUpdating(optimisticCart, newItems)
    /\ UNCHANGED <<cart, pending, opCount, now, sortOrder, last>>
    /\ UNCHANGED <<countryCode, capturedCountryCode, backend, quotes>>

\* The bulk-add updater returns { ...prev, item_subtotal, items: newItems }
\* and CartProvider renders with it.
ReturnUpdater ==
    /\ running.pos = "loop"
    /\ running.k > Len(running.op.payload)
    /\ optimisticCart' =
          Render([exists |-> TRUE, id |-> optimisticCart.id,
                  region_id |-> optimisticCart.region_id,
                  item_subtotal |-> calculateCartTotal(running.newItems),
                  items |-> running.newItems])
    /\ running' = [running EXCEPT !.pos = "dispatch"]
    /\ UNCHANGED <<cart, pending, opCount, now, sortOrder, last>>
    /\ UNCHANGED <<countryCode, capturedCountryCode, backend, quotes>>

\* The updater of delete or update-quantity runs.
RunUpdater ==
    /\ running.pos = "updater"
    /\ running.op.kind \in {"delete", "update"}
    /\ optimisticCart' =
          Render(IF running.op.kind = "delete"
                 THEN deleteUpdater(optimisticCart, running.op.lineItem)
                 ELSE updateUpdater(optimisticCart, running.op.lineItem,
                                    running.op.quantity))
    /\ running' = [running EXCEPT !.pos = "dispatch",
                                  !.op.prevCart = structuredClone(optimisticCart)]
    /\ UNCHANGED <<cart, pending, opCount, now, sortOrder, last>>
    /\ UNCHANGED <<countryCode, capturedCountryCode, backend, quotes>>

\* The requests a handler dispatches after its updater.
requestsOf(op) ==
    CASE op.kind = "add" -> <<addToCartBulk(op.payload)>>
      [] op.kind = "delete" -> <<deleteLineItem(op.lineItem)>>
      [] op.kind = "update" -> updateRequests(op.lineItem, op.quantity)

\* The handler reaches its remote call and awaits it.
Dispatch ==
    /\ running.pos = "dispatch"
    /\ LET sent == requestsOf(running.op)
       IN  /\ pending' = IF sent = <<>> THEN pending ELSE pending \cup {running.op}
           /\ last' = Step("start", running.op, sent, <<>>,
                            IF sent = <<>> \/ running.op.kind = "add"
                            THEN "fulfilled" ELSE "pending")
    /\ running' = Idle
    /\ UNCHANGED <<cart, optimisticCart, opCount, now, sortOrder>>
    /\ UNCHANGED <<countryCode, capturedCountryCode, backend, quotes>>

NextSteps ==
    \/ \E payload \in Payloads : Invoke("add", "", 0, payload)
    \/ \E lineItem \in LineItemIds : Invoke("delete", lineItem, 0, <<>>)
    \/ \E lineItem \in LineItemIds : \E quantity \in 0..MaxQty :
          Invoke("update", lineItem, quantity, <<>>)
    \/ EnterUpdater
    \/ LoopEntry
    \/ ReturnUpdater
    \/ RunUpdater
    \/ Dispatch
    \/ running = Idle /\ \E op \in pending : Resolve(op)
    \/ running = Idle /\ \E op \in pending : Reject(op)

SpecSteps == Init /\ [][NextSteps]_vars

\* ------------------------------------------ refresh of the authoritative cart

\* Mutant of useOptimistic: the working cart is kept when the cart prop changes.
useOptimisticKeepingState(passthrough) == optimisticCart

\* useOptimistic(cart) on a render with a new cart prop: the working cart is
\* the prop.
useOptimistic(passthrough) == passthrough

\* The data layer supplies the cart it fetched from the backend and
\* CartProvider renders with it.
Refresh ==
    /\ \E fetched \in {retrieveCart(backend)} :
          /\ cart' = Render(fetched)
          /\ optimisticCart' = Render(useOptimistic(fetched))
    /\ last' = Step("refresh", NoOp, <<>>, <<>>, "fulfilled")
    /\ UNCHANGED <<pending, opCount, now, sortOrder>>
    /\ UNCHANGED <<countryCode, capturedCountryCode, running, backend, quotes>>

Settle == \E op \in pending : Resolve(op) \/ Reject(op)

NextRefresh ==
    \/ Next
    \/ Refresh

\* Every remote call in flight settles, and refreshes keep being supplied.
SpecRefresh ==
    /\ Init
    /\ [][NextRefresh]_vars
    /\ WF_vars(Settle)
    /\ WF_vars(Refresh)

\* ------------------------------------------------- the sorted view on its own

\* The rows of the carts the sorted view is computed of: row i has the i-th
\* id and variant, and any created_at, 0 standing for a missing one.
RowIds == <<"li_1", "li_2", "li_3", "li_4", "li_5">>

RowVariants == <<"v1", "v2", "v3", "v4", "v5">>

Rows ==
    {LineItem(RowIds[i], RowVariants[i], 1, 50, t) : i \in 1..MaxRows, t \in 0..MaxStamp}

\* The item lists, in any order, with one row per id.
ItemLists ==
    UNION {{items \in [1..n -> Rows] :
                \A i \in 1..n, j \in 1..n : i # j => items[i].id # items[j].id}
           : n \in 0..MaxRows}

SuppliedCarts == {Cart("cart_1", "reg_1", items) : items \in ItemLists}

\* CartProvider is called with a cart prop; the useMemo of sortedItems has not
\* run yet.
InitView ==
    /\ sortOrder \in SortOrders
    /\ \E c \in SuppliedCarts :
          /\ cart = c
          /\ optimisticCart = useOptimistic(c)
    /\ pending = {}
    /\ opCount = 0
    /\ now = MaxStamp
    /\ last = Step("supplied", NoOp, <<>>, <<>>, "fulfilled")
    /\ countryCode = "us"
    /\ capturedCountryCode = countryCode
    /\ running = Idle
    /\ backend = backendOf(NullCart)
    /\ quotes = NoQuotes

\* The useMemo of sortedItems runs: optimisticCart.items.sort(...) sorts the
\* array of the working cart, which is the array of the cart prop as long as
\* no updater has replaced the working cart.  The cart the useMemo found is
\* kept in last.op.before.
ComputeSortedItems ==
    /\ last.event = "supplied"
    /\ optimisticCart' = Render(optimisticCart)
    /\ cart' = IF optimisticCart = cart THEN Render(cart) ELSE cart
    /\ last' = Step("render",
                     Op(0, "view", "", 0, <<>>, EmptyObject, optimisticCart, {}),
                     <<>>, <<>>, "fulfilled")
    /\ UNCHANGED <<pending, opCount, now, sortOrder>>
    /\ UNCHANGED <<countryCode, capturedCountryCode, running, backend, quotes>>

SpecView == InitView /\ [][ComputeSortedItems]_vars

\* -------------------------------------------- the handlers on carts of more rows

\* CartProvider has rendered with any cart of up to MaxRows rows, and one more
\* handler invocation applies a mutation.
InitFrame ==
    /\ sortOrder \in SortOrders
    /\ \E c \in SuppliedCarts :
          /\ cart = Render(c)
          /\ optimisticCart = Render(useOptimistic(c))
          /\ backend = backendOf(c)
    /\ pending = {}
    /\ opCount = MaxOps - 1
    /\ now = MaxStamp
    /\ last = Step("init", NoOp, <<>>, <<>>, "fulfilled")
    /\ countryCode = "us"
    /\ capturedCountryCode = countryCode
    /\ running = Idle
    /\ quotes = NoQuotes

SpecFrame == InitFrame /\ [][Next]_vars

\* ------------------------------------------------- change of the country code

\* The dependency array of the useCallback of handleOptimisticAddToCart on a
\* render with the given countryCode: [setOptimisticCart], which is the same
\* function on every render.
handlerDeps(code) == <<"setOptimisticCart">>

\* useCallback(fn, deps): the function of the previous render is kept when
\* the dependencies are equal to those of the previous render.
useCallback(memoized, fn, prevDeps, deps) ==
    IF deps = prevDeps THEN memoized ELSE fn

\* The route parameter changes and CartProvider renders again: useParams
\* returns the new countryCode, and the bulk-add handler, which the effect
\* registers on the event bus when its identity changes, is the one
\* useCallback returns.  A handler is represented by the countryCode in its
\* closure.
Navigate(code) ==
    /\ code # countryCode
    /\ countryCode' = code
    /\ capturedCountryCode' =
          useCallback(capturedCountryCode, code,
                      handlerDeps(countryCode), handlerDeps(code))
    /\ last' = Step("navigate", NoOp, <<>>, <<>>, "fulfilled")
    /\ UNCHANGED <<cart, optimisticCart, pending, opCount, now, sortOrder>>
    /\ UNCHANGED <<running, backend, quotes>>

NextCountry ==
    \/ Next
    \/ \E code \in CountryCodes : Navigate(code)

SpecCountry == Init /\ [][NextCountry]_vars

\* ------------------------------------------------------------- the quotes

\* The carts a quote is requested for: cart and cart2 of the integration test.
QuoteCarts == {"cart_1", "cart_2"}

\* The order change of a new quote: an edit, requested, whose one action
\* (ITEM_ADD) is for version 2 of the draft order.
requestedEdit == [change_type |-> "edit", status |-> "requested", action_version |-> 2]

\* POST /customers/quotes { cart_id }: the quote, with its draft order and its
\* order change.
createQuote(cart_id) ==
    [cart_id |-> cart_id,
     draft_order |-> [status |-> "draft", is_draft_order |-> TRUE, version |-> 1],
     order_change |-> requestedEdit]

\* Mutant of acceptQuote: the draft order is completed at the version it had.
acceptQuoteKeepingVersion(quote) ==
    [quote EXCEPT !.draft_order.status = "completed"]

\* POST /customers/quotes/:id/accept: the requested order change is applied,
\* which takes the draft order to the version of its action, and the draft
\* order is completed.
acceptQuote(quote) ==
    [quote EXCEPT !.draft_order.status = "completed",
                  !.draft_order.version = quote.order_change.action_version]

\* POST /customers/quotes/:id/reject: the draft order is canceled; the order
\* change is not applied.
rejectQuote(quote) ==
    [quote EXCEPT !.draft_order.status = "canceled"]

\* The step of a quote endpoint: which quote it answered with.
QuoteStep(event, id) ==
    Step(event, Op(id, "quote", "", 0, <<>>, EmptyObject, EmptyObject, {}),
         <<>>, <<>>, "fulfilled")

CreateQuote(cart_id) ==
    /\ Len(quotes) < MaxQuotes
    /\ quotes' = Append(quotes, createQuote(cart_id))
    /\ last' = QuoteStep("quote created", Len(quotes) + 1)
    /\ UNCHANGED <<cart, optimisticCart, pending, opCount, now, sortOrder>>
    /\ UNCHANGED <<countryCode, capturedCountryCode, running, backend>>

\* The customer accepts a quote that is neither accepted nor rejected yet.
AcceptQuote(id) ==
    /\ quotes[id].draft_order.status = "draft"
    /\ quotes' = [quotes EXCEPT ![id] = acceptQuote(@)]
    /\ last' = QuoteStep("quote accepted", id)
    /\ UNCHANGED <<cart, optimisticCart, pending, opCount, now, sortOrder>>
    /\ UNCHANGED <<countryCode, capturedCountryCode, running, backend>>

\* The customer rejects a quote that is neither accepted nor rejected yet.
RejectQuote(id) ==
    /\ quotes[id].draft_order.status = "draft"
    /\ quotes' = [quotes EXCEPT ![id] = rejectQuote(@)]
    /\ last' = QuoteStep("quote rejected", id)
    /\ UNCHANGED <<cart, optimisticCart, pending, opCount, now, sortOrder>>
    /\ UNCHANGED <<countryCode, capturedCountryCode, running, backend>>

NextQuotes ==
    \/ \E cart_id \in QuoteCarts : CreateQuote(cart_id)
    \/ \E id \in 1..Len(quotes) : AcceptQuote(id)
    \/ \E id \in 1..Len(quotes) : RejectQuote(id)

SpecQuotes == Init /\ [][NextQuotes]_vars

\* ------------------------------------------------- vocabulary of the claims

Range(s) == {s[i] : i \in 1..Len(s)}

\* The sum of unit_price * quantity over a list of line items.
RECURSIVE LineSum(_)
LineSum(items) ==
    IF items = <<>> THEN 0
    ELSE items[1].unit_price * items[1].quantity + LineSum(Tail(items))

RowsOf(c, variant) == {i \in 1..Len(c.items) : c.items[i].variant = variant}

HasRow(c, id) == \E i \in 1..Len(c.items) : c.items[i].id = id

RowOf(c, id) == c.items[CHOOSE i \in 1..Len(c.items) : c.items[i].id = id]

\* The quantity the cart holds of a variant, over all its rows.
RECURSIVE QuantityIn(_, _)
QuantityIn(items, variant) ==
    IF items = <<>> THEN 0
    ELSE (IF items[1].variant = variant THEN items[1].quantity ELSE 0)
         + QuantityIn(Tail(items), variant)

\* The quantity a payload asks of a variant, over all its entries.
RECURSIVE PayloadQuantity(_, _)
PayloadQuantity(payload, variant) ==
    IF payload = <<>> THEN 0
    ELSE (IF payload[1].productVariant = variant THEN payload[1].quantity ELSE 0)
         + PayloadQuantity(Tail(payload), variant)

PayloadVariants(payload) == {payload[k].productVariant : k \in 1..Len(payload)}

\* Same cart up to the order of the rows.
SameCart(a, b) ==
    /\ a.exists = b.exists
    /\ a.id = b.id
    /\ a.region_id = b.region_id
    /\ a.item_subtotal = b.item_subtotal
    /\ Len(a.items) = Len(b.items)
    /\ Range(a.items) = Range(b.items)

DistinctStamps(c) ==
    \A i \in 1..Len(c.items), j \in 1..Len(c.items) :
        i # j => c.items[i].created_at # c.items[j].created_at

HasOptimisticPrefix(id) == Len(id) >= 14 /\ SubSeq(id, 1, 14) = "__optimistic__"

Started(kind) == last.event = "start" /\ last.op.kind = kind

Rejected(kind) == last.event = "rejected" /\ last.op.kind = kind

\* ----------------------------------------------------------------- claims

\* C1: after a rejected remote call the working cart is the cart the failed
\* operation found when it ran: same id, region, subtotal and rows.  The rows
\* are also in the same order whenever the engine's sort keeps rows of equal
\* created_at in place or no two rows share a created_at.
C1_RevertRestoresPreOperationCart ==
    last.event = "rejected" =>
        /\ SameCart(optimisticCart, last.op.before)
        /\ (sortOrder = "pivotFirst" \/ DistinctStamps(last.op.before))
              => optimisticCart = last.op.before

\* C1 witness: the delete of li_1 (quantity 1), started while another
\* operation was in flight, was rejected and li_1 is back with quantity 1.
C1_Witness ==
    /\ Rejected("delete")
    /\ last.op.lineItem = "li_1"
    /\ last.op.concurrent # {}
    /\ HasRow(optimisticCart, "li_1")
    /\ RowOf(optimisticCart, "li_1").quantity = 1
    /\ optimisticCart # cart

\* C2: the subtotal of the working cart is the sum of unit_price * quantity
\* over its rows.
C2_SubtotalIsSumOfLines ==
    optimisticCart.exists =>
        optimisticCart.item_subtotal = LineSum(optimisticCart.items)

\* C2 witness: a revert has put back a cart of two priced rows whose subtotal
\* is not that of the authoritative cart.
C2_Witness ==
    /\ last.event = "rejected"
    /\ Len(optimisticCart.items) >= 2
    /\ optimisticCart.item_subtotal > 0
    /\ optimisticCart.item_subtotal # cart.item_subtotal

\* The variants an operation acts on: those of its payload, or that of the row
\* it names in the cart it found.
TargetVariants(op) ==
    IF op.kind = "add" THEN PayloadVariants(op.payload)
    ELSE {op.before.items[i].variant : i \in {j \in 1..Len(op.before.items) :
                                                op.before.items[j].id = op.lineItem}}

\* The optimistic effect of op, started from the cart op.before, is in cart c.
EffectPresent(op, c) ==
    CASE op.kind = "add" ->
            \A v \in PayloadVariants(op.payload) :
                QuantityIn(c.items, v) =
                    QuantityIn(op.before.items, v) + PayloadQuantity(op.payload, v)
      [] op.kind = "delete" -> ~HasRow(c, op.lineItem)
      [] op.kind = "update" ->
            IF op.quantity = 0 THEN ~HasRow(c, op.lineItem)
            ELSE HasRow(c, op.lineItem) /\ RowOf(c, op.lineItem).quantity = op.quantity
      [] OTHER -> TRUE

\* C3: X, a bulk add, is the first operation; Y, the delete of a row of another
\* variant, is the second and starts while X is in flight.  Once Y's remote
\* call has been rejected the cart holds X's additions on top of the
\* authoritative cart, and the row Y deleted is back as it was.
C3_RejectedDeleteKeepsEarlierAdd ==
    (Rejected("delete") /\ last.op.seq = 2) =>
        \A X \in last.op.concurrent :
            (X.kind = "add" /\ X.seq = 1
                /\ TargetVariants(last.op) \cap PayloadVariants(X.payload) = {})
            => /\ \A v \in PayloadVariants(X.payload) :
                     /\ Cardinality(RowsOf(optimisticCart, v)) = 1
                     /\ QuantityIn(optimisticCart.items, v) =
                            QuantityIn(cart.items, v) + PayloadQuantity(X.payload, v)
               /\ HasRow(cart, last.op.lineItem)
               /\ HasRow(optimisticCart, last.op.lineItem)
               /\ RowOf(optimisticCart, last.op.lineItem) = RowOf(cart, last.op.lineItem)

\* C3 witness: the add of v2 is still in flight (it has not failed), the delete
\* of li_1 that started after it was rejected, and the cart holds the new v2
\* row and li_1.
C3_Witness ==
    /\ Rejected("delete")
    /\ last.op.seq = 2
    /\ last.op.lineItem = "li_1"
    /\ \E X \in pending :
          /\ X.kind = "add" /\ X.seq = 1
          /\ PayloadVariants(X.payload) = {"v2"}
          /\ Descriptor(X) \in last.op.concurrent
    /\ ~HasRow(cart, "__optimistic__-v2")
    /\ HasRow(optimisticCart, "__optimistic__-v2")
    /\ HasRow(optimisticCart, "li_1")

\* C4, as claimed: when X's remote call is rejected, the optimistic effect of
\* every operation Y on other variants that started while X was in flight is
\* still in the cart after X's revert.
C4_RevertKeepsLaterOperations ==
    last.event = "rejected" =>
        \A Y \in pending :
            (/\ Y.seq > last.op.seq
             /\ TargetVariants(Y) # {}
             /\ TargetVariants(last.op) # {}
             /\ TargetVariants(Y) \cap TargetVariants(last.op) = {})
            => EffectPresent(Y, optimisticCart)

\* C5: a bulk add leaves exactly one row for every variant of its payload,
\* holding the quantity the cart had of that variant plus all the quantities
\* the payload asks of it; the rows the cart had keep their ids, and a row is
\* new only for a variant the cart had no row of.
C5_BulkAddMergesByVariant ==
    Started("add") =>
        /\ \A v \in PayloadVariants(last.op.payload) :
              /\ Cardinality(RowsOf(optimisticCart, v)) = 1
              /\ QuantityIn(optimisticCart.items, v) =
                    QuantityIn(last.op.before.items, v)
                    + PayloadQuantity(last.op.payload, v)
        /\ \A i \in 1..Len(last.op.before.items) :
              HasRow(optimisticCart, last.op.before.items[i].id)
        /\ Len(optimisticCart.items) =
              Len(last.op.before.items)
              + Cardinality({v \in PayloadVariants(last.op.payload) :
                               RowsOf(last.op.before, v) = {}})

\* C5 witness: v1 was added with quantity 1 to a cart without v1, then again
\* with quantity 2 while the first add was in flight: one row, quantity 3.
C5_Witness ==
    /\ Started("add")
    /\ last.op.payload = <<[productVariant |-> "v1", quantity |-> 2]>>
    /\ \E X \in last.op.concurrent :
          X.kind = "add" /\ X.payload = <<[productVariant |-> "v1", quantity |-> 1]>>
    /\ RowsOf(cart, "v1") = {}
    /\ Cardinality(RowsOf(optimisticCart, "v1")) = 1
    /\ QuantityIn(optimisticCart.items, "v1") = 3

\* The operations started so far, when none of them has been rejected and at
\* most the latest step resolved one: those in flight and the one just resolved.
StartedUnrejected ==
    pending \cup (IF last.event = "resolved" THEN {last.op} ELSE {})

RECURSIVE PayloadQuantityOfAll(_, _)
PayloadQuantityOfAll(ops, variant) ==
    IF ops = {} THEN 0
    ELSE LET op == CHOOSE o \in ops : TRUE
         IN  PayloadQuantity(op.payload, variant)
             + PayloadQuantityOfAll(ops \ {op}, variant)

\* C6: when every operation started so far is a bulk add and none has been
\* rejected, the cart holds, of every variant, the authoritative quantity plus
\* the quantities of all the payloads.
C6_ConcurrentAddsAccumulate ==
    (/\ StartedUnrejected # {}
     /\ Cardinality(StartedUnrejected) = opCount
     /\ \A op \in StartedUnrejected : op.kind = "add")
    => \A v \in Variants :
          QuantityIn(optimisticCart.items, v) =
              QuantityIn(cart.items, v) + PayloadQuantityOfAll(StartedUnrejected, v)

\* C6 witness: two bulk adds were started one after the other before either
\* settled, both naming v1, which the authoritative cart has a row of; the
\* first has resolved.
C6_Witness ==
    /\ opCount = 2
    /\ last.event = "resolved"
    /\ Cardinality(StartedUnrejected) = 2
    /\ \A op \in StartedUnrejected : op.kind = "add" /\ "v1" \in PayloadVariants(op.payload)
    /\ \E op \in pending : op.seq = 2 /\ op.concurrent # {}
    /\ RowsOf(cart, "v1") # {}
    /\ QuantityIn(optimisticCart.items, "v1") > QuantityIn(cart.items, "v1") + 1

\* C7: an update of a row of the cart dispatches updateLineItem with the row's
\* id and the new quantity when the id is an authoritative one, and dispatches
\* nothing when the id is an optimistic one; the quantity in the cart changes
\* either way.
C7_UpdateCallsBackendIffAuthoritative ==
    Started("update") =>
        /\ IF last.op.lineItem \in {"__optimistic__-v1", "__optimistic__-v2"}
           THEN last.sent = <<>>
           ELSE last.sent = <<[api |-> "updateLineItem", lineId |-> last.op.lineItem,
                               quantity |-> last.op.quantity, lineItems |-> <<>>,
                               countryCode |-> ""]>>
        /\ (last.sent = <<>>) <=> (last.op \notin pending)
        /\ EffectPresent(last.op, optimisticCart)

\* C7 witness: the optimistic row of v1 got a new quantity and no request
\* was dispatched.
C7_Witness ==
    /\ Started("update")
    /\ last.op.lineItem = "__optimistic__-v1"
    /\ last.op.quantity > 0
    /\ RowOf(last.op.before, "__optimistic__-v1").quantity # last.op.quantity
    /\ RowOf(optimisticCart, "__optimistic__-v1").quantity = last.op.quantity
    /\ last.sent = <<>>

\* C8: delete and update-quantity go past the presence check only for an id
\* the cart has a row of; an invocation with any other id returns with the
\* cart and the operations in flight as they were, no request dispatched and
\* no notification.
C8_MissingIdIsNoOp ==
    /\ (Started("delete") \/ Started("update")) => HasRow(last.op.before, last.op.lineItem)
    /\ last.event = "return" =>
          /\ ~HasRow(last.op.before, last.op.lineItem)
          /\ optimisticCart = last.op.before
          /\ InFlight = last.op.concurrent
          /\ last.sent = <<>>
          /\ last.toasted = <<>>

\* C8 witness: li_1 was deleted, the delete is still in flight, and a second
\* delete of li_1 returned.
C8_Witness ==
    /\ last.event = "return"
    /\ last.op.kind = "delete"
    /\ last.op.lineItem = "li_1"
    /\ HasRow(cart, "li_1")
    /\ \E op \in pending : op.kind = "delete" /\ op.lineItem = "li_1"

\* C9: an update to quantity 0 removes the row and the subtotal drops by the
\* row's unit_price * quantity; an update to a larger quantity keeps the row
\* with exactly that quantity.  The other rows are untouched.
C9_UpdateReplacesOrRemoves ==
    Started("update") =>
        LET before == last.op.before
            row == RowOf(before, last.op.lineItem)
        IN  /\ IF last.op.quantity = 0
               THEN /\ ~HasRow(optimisticCart, last.op.lineItem)
                    /\ optimisticCart.item_subtotal =
                          before.item_subtotal - row.unit_price * row.quantity
                    /\ Range(optimisticCart.items) = Range(before.items) \ {row}
               ELSE /\ HasRow(optimisticCart, last.op.lineItem)
                    /\ RowOf(optimisticCart, last.op.lineItem) =
                          [row EXCEPT !.quantity = last.op.quantity]
                    /\ Range(optimisticCart.items) =
                          (Range(before.items) \ {row})
                          \cup {[row EXCEPT !.quantity = last.op.quantity]}
            /\ Cardinality(Range(optimisticCart.items)) = Len(optimisticCart.items)

\* C9 witness: li_2 (unit price 30, quantity 2) was updated to quantity 0.
C9_Witness ==
    /\ Started("update")
    /\ last.op.lineItem = "li_2"
    /\ last.op.quantity = 0
    /\ HasRow(last.op.before, "li_2")
    /\ ~HasRow(optimisticCart, "li_2")
    /\ optimisticCart.item_subtotal = last.op.before.item_subtotal - 60

CarriesOptimisticId(request) ==
    \/ HasOptimisticPrefix(request.lineId)
    \/ \E k \in 1..Len(request.lineItems) :
          HasOptimisticPrefix(request.lineItems[k].variant_id)

\* C10: a bulk add dispatches exactly one request, addToCartBulk, with one
\* entry per payload entry carrying that entry's variant id and quantity; no
\* add or update request carries an id with the optimistic prefix.
C10_AddSendsVariantIds ==
    /\ Started("add") =>
          /\ Len(last.sent) = 1
          /\ last.sent[1].api = "addToCartBulk"
          /\ Len(last.sent[1].lineItems) = Len(last.op.payload)
          /\ \A k \in 1..Len(last.op.payload) :
                last.sent[1].lineItems[k] =
                    [variant_id |-> last.op.payload[k].productVariant,
                     quantity |-> last.op.payload[k].quantity]
    /\ \A k \in 1..Len(last.sent) :
          last.sent[k].api \in {"addToCartBulk", "updateLineItem"}
          => ~CarriesOptimisticId(last.sent[k])

\* C10 witness: v1, which has an optimistic row in the cart, was added again;
\* the request names v1.
C10_Witness ==
    /\ Started("add")
    /\ HasRow(last.op.before, "__optimistic__-v1")
    /\ Len(last.sent) = 1
    /\ Len(last.sent[1].lineItems) = 2
    /\ last.sent[1].lineItems[1].variant_id = "v1"

\* C11: a rejected remote call of an add, a delete or an update emits exactly
\* one failure notification, that of its handler, and puts the cart the
\* operation found back; the promise of the handler invocation fulfils, and
\* is never rejected at any step.  No step other than a rejection emits a
\* notification: not a dispatch, not a skipped remote call, not a remote
\* call that fulfils.
C11_RejectionIsHandledInTheStore ==
    /\ last.event = "rejected" =>
          /\ last.op.kind \in {"add", "delete", "update"}
          /\ Len(last.toasted) = 1
          /\ last.toasted[1] =
                (CASE last.op.kind = "add" -> "Failed to add to cart"
                   [] last.op.kind = "delete" -> "Failed to delete item"
                   [] last.op.kind = "update" -> "Failed to update cart quantity")
          /\ SameCart(optimisticCart, last.op.before)
          /\ last.op \notin pending
          /\ last.promise = "fulfilled"
    /\ last.event # "rejected" => last.toasted = <<>>
    /\ last.promise # "rejected"

\* C11 witness: the update of li_1 from quantity 1 to 2 was rejected: one
\* notification, quantity 1 again, the promise fulfilled.
C11_Witness ==
    /\ Rejected("update")
    /\ last.op.lineItem = "li_1"
    /\ last.op.quantity = 2
    /\ last.toasted = <<"Failed to update cart quantity">>
    /\ RowOf(optimisticCart, "li_1").quantity = 1
    /\ last.promise = "fulfilled"

\* The visible cart holds the variants and quantities the backend cart holds.
Converged ==
    \A v \in {"v1", "v2"} : QuantityIn(VisibleCart.items, v) = backend.quantity[v]

\* C12: when every remote call in flight settles and refreshes keep being
\* supplied, the visible cart holds the variants and quantities of the
\* backend cart again and again: it never stays different from it.
C12_ViewConvergesToBackend == []<>Converged

\* C12 witness: the delete of li_1, the first operation, was rejected after a
\* refresh had supplied a cart with the v2 the backend has added meanwhile:
\* the visible cart is the snapshot from before the refresh, without v2.
C12_Witness ==
    /\ Rejected("delete")
    /\ last.op.seq = 1
    /\ last.op.lineItem = "li_1"
    /\ QuantityIn(last.op.before.items, "v2") = 0
    /\ QuantityIn(cart.items, "v2") > 0
    /\ backend.quantity["v2"] > 0
    /\ QuantityIn(VisibleCart.items, "v2") = 0
    /\ ~Converged

\* C13: while a handler has not finished its updater the working cart is the
\* cart the handler found, with nothing of the operation applied; from the end
\* of the updater on it holds the whole mutation, every entry of a bulk-add
\* payload included; and the remote call of an operation is dispatched only
\* after that: an operation whose mutation is not applied yet is not in flight,
\* and at the dispatch the mutation is in the cart.
C13_MutationIsAtomicAndBeforeDispatch ==
    /\ running.pos \in {"updater", "loop"} =>
          /\ optimisticCart = running.op.before
          /\ \A op \in pending : op.seq # running.op.seq
    /\ running.pos = "dispatch" =>
          /\ EffectPresent(running.op, optimisticCart)
          /\ running.op.kind = "add" =>
                /\ \A v \in {"v1", "v2"} \ PayloadVariants(running.op.payload) :
                      QuantityIn(optimisticCart.items, v) =
                          QuantityIn(running.op.before.items, v)
                /\ optimisticCart.item_subtotal = LineSum(optimisticCart.items)
          /\ \A op \in pending : op.seq # running.op.seq
    /\ (last.event = "start" /\ running.pos = "idle") =>
          /\ EffectPresent(last.op, optimisticCart)
          /\ last.sent # <<>> => last.op \in pending

\* C13 witness: the updater of a bulk add of v1 and v2 has taken the first of
\* its two entries; the working cart has no new row yet and nothing was
\* dispatched for the add.
C13_Witness ==
    /\ running.pos = "loop"
    /\ running.k = 2
    /\ Len(running.op.payload) = 2
    /\ PayloadVariants(running.op.payload) = {"v1", "v2"}
    /\ Len(running.newItems) = Len(optimisticCart.items) + 1
    /\ optimisticCart = running.op.before
    /\ \A op \in pending : op.seq # running.op.seq

\* How many times a row occurs in a list.
Occurrences(items, row) == Cardinality({i \in 1..Len(items) : items[i] = row})

\* C14: once the view is computed, the items exposed to consumers are the
\* items of the cart, each as many times as the cart had it, and of two
\* exposed items with different created_at the one with the later created_at
\* comes first; an item without created_at comes after every item with one.
C14_ExposedItemsSortedByRecency ==
    last.event = "render" =>
        /\ Len(VisibleCart.items) = Len(last.op.before.items)
        /\ \A row \in Range(last.op.before.items) \cup Range(VisibleCart.items) :
              Occurrences(VisibleCart.items, row) = Occurrences(last.op.before.items, row)
        /\ \A i \in 1..Len(VisibleCart.items), j \in 1..Len(VisibleCart.items) :
              /\ VisibleCart.items[i].created_at > VisibleCart.items[j].created_at
                    => i < j
              /\ (VisibleCart.items[i].created_at = 0
                    /\ VisibleCart.items[j].created_at # 0) => j < i

\* C14 witness: a cart supplied as li_1 without created_at, li_2 created at
\* 1, li_3 created at 2 is exposed as li_3, li_2, li_1.
C14_Witness ==
    /\ last.event = "render"
    /\ Len(last.op.before.items) = 3
    /\ last.op.before.items[1].id = "li_1" /\ last.op.before.items[1].created_at = 0
    /\ last.op.before.items[2].id = "li_2" /\ last.op.before.items[2].created_at = 1
    /\ last.op.before.items[3].id = "li_3" /\ last.op.before.items[3].created_at = 2
    /\ VisibleCart.items[1].id = "li_3"
    /\ VisibleCart.items[2].id = "li_2"
    /\ VisibleCart.items[3].id = "li_1"

\* C16, as claimed: computing the sorted view leaves the item list of the
\* working cart as it was, in order and content.
C16_ViewLeavesWorkingCartUnchanged ==
    last.event = "render" => optimisticCart.items = last.op.before.items

C17_OneRowPerVariant ==
    /\ \A i \in 1..Len(optimisticCart.items), j \in 1..Len(optimisticCart.items) :
          i # j => /\ optimisticCart.items[i].id # optimisticCart.items[j].id
                   /\ optimisticCart.items[i].variant # optimisticCart.items[j].variant
    /\ \A i \in 1..Len(optimisticCart.items) :
          optimisticCart.items[i].id \notin {"li_1", "li_2"}
          => optimisticCart.items[i].id =
                "__optimistic__-" \o optimisticCart.items[i].variant
    /\ Started("add") =>
          \A v \in {"v1", "v2"} :
              RowsOf(last.op.before, v) # {}
              => Cardinality(RowsOf(optimisticCart, v)) = 1

\* C17 witness: two bulk adds, both in flight, have each added v1 and v2 to a
\* cart that had li_1 (v1) only: the cart has li_1 and one optimistic row, of v2.
C17_Witness ==
    /\ Cardinality(pending) = 2
    /\ \A op \in pending :
          op.kind = "add" /\ PayloadVariants(op.payload) = {"v1", "v2"}
    /\ Len(cart.items) = 1
    /\ Len(optimisticCart.items) = 2
    /\ HasRow(optimisticCart, "li_1")
    /\ HasRow(optimisticCart, "__optimistic__-v2")
    /\ QuantityIn(optimisticCart.items, "v2") >= 2

\* C18, as claimed: the addToCartBulk request of a bulk add carries the
\* countryCode of the latest render, whatever it was when the handler was
\* created.
C18_AddCarriesCurrentCountryCode ==
    (Started("add") /\ last.op.payload # <<>>) =>
        /\ Len(last.sent) = 1
        /\ last.sent[1].countryCode = countryCode

\* The rows of a list other than the row with the given id, in their order.
Without(items, id) == SelectSeq(items, LAMBDA row : row.id # id)

\* C19: a delete or an update-quantity of id L leaves the cart's id and region
\* and every row other than L as they were: the same rows, and in the same
\* relative order in the cart the updater returns; in the rendered cart the
\* order is the same whenever the engine's sort keeps rows of equal
\* created_at in place or no two rows share a created_at.  A bulk add keeps
\* every row the cart had, and a row whose variant is not in the payload is
\* kept as it was.
C19_MutationTouchesOnlyItsTarget ==
    /\ (Started("delete") \/ Started("update")) =>
          LET before == last.op.before
              L == last.op.lineItem
              returned == IF last.op.kind = "delete"
                          THEN deleteUpdater(before, L)
                          ELSE updateUpdater(before, L, last.op.quantity)
          IN  /\ optimisticCart.exists = before.exists
              /\ optimisticCart.id = before.id
              /\ optimisticCart.region_id = before.region_id
              /\ Range(Without(optimisticCart.items, L)) = Range(Without(before.items, L))
              /\ Len(Without(optimisticCart.items, L)) = Len(Without(before.items, L))
              /\ Without(returned.items, L) = Without(before.items, L)
              /\ SameCart(optimisticCart, returned)
              /\ (sortOrder = "pivotFirst" \/ DistinctStamps(before))
                    => Without(optimisticCart.items, L) = Without(before.items, L)
    /\ Started("add") =>
          \A i \in 1..Len(last.op.before.items) :
              LET row == last.op.before.items[i]
              IN  /\ HasRow(optimisticCart, row.id)
                  /\ row.variant \notin PayloadVariants(last.op.payload)
                        => RowOf(optimisticCart, row.id) = row
                  /\ RowOf(optimisticCart, row.id).unit_price = row.unit_price

\* C19 witness: li_2 was deleted from the cart li_3, li_2, li_1; the cart is
\* li_3, li_1, both as they were.
C19_Witness ==
    /\ Started("delete")
    /\ last.op.lineItem = "li_2"
    /\ Len(last.op.before.items) = 3
    /\ last.op.before.items[1].id = "li_3"
    /\ last.op.before.items[3].id = "li_1"
    /\ Len(optimisticCart.items) = 2
    /\ optimisticCart.items[1] = last.op.before.items[1]
    /\ optimisticCart.items[2] = last.op.before.items[3]
    /\ optimisticCart.id = "cart_1"

====
